---- MODULE Spec2Model ----
(***************************************************************************)
(* A model of the pipebuf_mio connectors TcpLink (src/src/tcpstream.rs)    *)
(* and UnixStreamLink (src/src/unixstream.rs).                             *)
(*                                                                         *)
(* One link, one stream and one duplex pipe-buffer (PBufRdWr) are          *)
(* modelled.  `kind` says which of the two connectors the link is.  Every  *)
(* public method of the link is one action.  The stream's answers to the   *)
(* calls a method makes (write, read, shutdown, set_nodelay) are inputs of *)
(* the action, and the calls made are recorded in last.log.                *)
(*                                                                         *)
(* The pipe-buffer operations the connectors call belong to the pipebuf    *)
(* crate.  They are modelled by their documented contract, each as one     *)
(* operator named after the method, at the place the connector calls it:   *)
(*   - the outgoing pipe (pbuf.rd) is a byte sequence and a PBufState;     *)
(*   - the incoming pipe (pbuf.wr) is a byte count and a PBufState;        *)
(*   - PBufWr::abort on a pipe that already has end-of-file set panics.    *)
(***************************************************************************)
EXTENDS Integers, Sequences, FiniteSets, TLC

\* ---------------------------------------------------------------- bounds

\* Bytes moved over a run: those the owner queues on the outgoing pipe and
\* those read from the peer, together.
MaxBytes == 2
\* Largest value the owner passes to set_max_read_unit.
MaxUnit == 1
\* "Interrupted" answers in a row to one retried call.
MaxIntr == 1
\* Successful shutdown calls after which the run is cut off.
ShutCap == 2

\* ------------------------------------------------------ program constants

\* max_read_unit set by new()
DefaultMaxReadUnit == 2048

VARIABLES
    kind,     \* "tcp" (TcpLink) or "unix" (UnixStreamLink)
    link,     \* the connector's fields
    pbuf,     \* the duplex pipe-buffer: rd_* outgoing pipe, wr_* incoming pipe
    stream,   \* what the stream has been made to do so far
    queued,   \* bytes the owner has queued on the outgoing pipe so far
    last      \* the most recent operation: its name, result and calls made

vars == <<kind, link, pbuf, stream, queued, last>>

Min(a, b) == IF a < b THEN a ELSE b

\* --------------------------------------------------------------- pipebuf

PBufStates == {"Open", "Closing", "Aborting", "Closed", "Aborted"}

\* PBufRd::is_empty
is_empty(data) == data = <<>>

\* PBufRd::has_pending_eof: end-of-file indicated and not yet consumed
has_pending_eof(st) == st \in {"Closing", "Aborting"}

\* PBufRd::is_aborted
is_aborted(st) == st \in {"Aborting", "Aborted"}

\* PBufWr::is_eof: end-of-file has been indicated on the pipe
is_eof(st) == st # "Open"

\* Mutant of consume_eof: the end-of-file is never marked as consumed.
consume_eof_skipped(st) == st

\* PBufRd::consume_eof
consume_eof(st) ==
    CASE st = "Closing" -> "Closed"
      [] st = "Aborting" -> "Aborted"
      [] OTHER -> st

\* 1 if consume_eof changes the state st, else 0 (counted in n_consume_eof).
eof_consumed(st) == IF consume_eof(st) # st THEN 1 ELSE 0

\* PBufRd::tripwire / PBufWr::tripwire: a snapshot of the pipe's position
\* and state; is_tripped compares a later snapshot against it.
tripwire(pos, st) == <<pos, st>>
is_tripped(pos, st, trip) == tripwire(pos, st) # trip

\* ------------------------------------------------------------- the stream

NoLog == <<>>

Entry(call, arg, len, n, res) ==
    [call |-> call, arg |-> arg, len |-> len, n |-> n, res |-> res]

\* The answers a call on the stream can get.
Outcome(i, r) == [intr |-> i, res |-> r]
NoOutcome == Outcome(0, "None")
NodelayOutcomes == {Outcome(i, r) : i \in 0..MaxIntr, r \in {"Ok", "InvalidInput"}}
ShutdownOutcomes ==
    {Outcome(i, r) : i \in 0..MaxIntr, r \in {"Ok", "WouldBlock", "NotConnected"}}

\* One answer to write(): n bytes accepted, or a failure kind.
WriteOk(n) == [res |-> "Ok", n |-> n]
WriteErr(k) == [res |-> k, n |-> 0]

\* One answer to read(): avail bytes ready (0 with "Ok" is the peer's
\* close), or a failure kind.
ReadOk(avail) == [res |-> "Ok", avail |-> avail]
ReadErr(k) == [res |-> k, avail |-> 0]
NoRead == ReadErr("None")
ReadErrKinds == {"WouldBlock", "ConnectionReset", "ConnectionAborted", "TimedOut"}
ReadOutcomes(most) ==
    {ReadOk(a) : a \in 0..most} \cup {ReadErr(k) : k \in ReadErrKinds}

\* Mutant of retry: the call is made once and an Interrupted answer is the
\* value.
retry_once(call, arg, len, o) ==
    [res |-> IF o.intr > 0 THEN "Interrupted" ELSE o.res,
     log |-> <<Entry(call, arg, len, 0, IF o.intr > 0 THEN "Interrupted" ELSE o.res)>>]

\* retry! (lib.rs): the call is made again while it answers Interrupted; the
\* value of the macro is the first other answer.  o.intr is the number
\* of Interrupted answers the stream gives first, o.res the answer after.
retry(call, arg, len, o) ==
    [res |-> o.res,
     log |-> [i \in 1..(o.intr + 1) |->
                Entry(call, arg, len, 0, IF i <= o.intr THEN "Interrupted" ELSE o.res)]]

\* The answer scripts output_to can meet with len bytes to write: a write
\* accepts one byte or more, and output_to stops at the first failure or
\* when all bytes are accepted.  (An Interrupted answer to write() is not among the
\* answers: what output_to does with it is inside the pipebuf crate.)
RECURSIVE WriteScripts(_)
WriteScripts(len) ==
    IF len = 0 THEN {<<>>}
    ELSE {<<WriteErr("WouldBlock")>>, <<WriteErr("BrokenPipe")>>}
         \cup UNION {{<<WriteOk(n)>> \o s : s \in WriteScripts(len - n)} : n \in 1..len}

\* PBufRd::output_to(stream, false): write() the pipe's bytes until none is
\* left or a write fails.  Bytes a write accepts are consumed from the
\* pipe; a failure is returned.  With nothing to write no call is made.
\* (TcpStream::flush does nothing.)
RECURSIVE output_to(_, _, _)
output_to(data, ws, log) ==
    IF is_empty(data) THEN [data |-> data, res |-> "Ok", log |-> log]
    ELSE IF ws = <<>> THEN [data |-> data, res |-> "Incomplete", log |-> log]
    ELSE LET w == Head(ws)
             n == Min(w.n, Len(data))
             e == Entry("write", "", Len(data), IF w.res = "Ok" THEN n ELSE 0, w.res)
         IN IF w.res = "Ok"
            THEN output_to(SubSeq(data, n + 1, Len(data)), Tail(ws), Append(log, e))
            ELSE [data |-> data, res |-> w.res, log |-> Append(log, e)]

\* PBufWr::abort: sets the Aborting state on an open pipe; panics when
\* end-of-file has already been indicated on the pipe.
PBufWr_abort(st) ==
    IF st = "Open" THEN [st |-> "Aborting", panic |-> FALSE]
                   ELSE [st |-> st, panic |-> TRUE]

\* PBufWr::input_from(stream, len): one read() into a buffer of len bytes.
\* Bytes read are committed to the pipe; a read of zero bytes is the
\* peer's close and sets the Closing state; a failure is returned.  The
\* log entry says whether the stream had more bytes than were read.
input_from(wr_len, wr_state, rd, len) ==
    LET n == IF rd.res = "Ok" THEN Min(rd.avail, len) ELSE 0
    IN [wr_len |-> wr_len + n,
        wr_state |-> IF rd.res = "Ok" /\ n = 0 THEN "Closing" ELSE wr_state,
        res |-> rd.res,
        log |-> <<Entry("read", IF rd.avail > n THEN "more" ELSE "", len, n, rd.res)>>]

BoolStr(b) == IF b THEN "true" ELSE "false"

\* The value a drive operation hands back, with the state it leaves.
\* parts is filled by process alone: what its process_out call and its
\* process_in call returned.
Ret(L, P, S, ret, val, err, log) ==
    [link |-> L, pbuf |-> P, stream |-> S,
     ret |-> ret, val |-> val, err |-> err, log |-> log, parts |-> <<>>]

Returned(r) == [ret |-> r.ret, val |-> r.val, err |-> r.err]

\* ----------------------------------------------------- process_out, shared

\* Mutant of close_trigger: the close is acted on when the write would
\* block, bytes still queued.
close_trigger_unflushed(res, data, st) ==
    res \in {"Ok", "WouldBlock"} /\ has_pending_eof(st)

\* Mutant of close_trigger: the close is acted on whatever output_to
\* returned.
close_trigger_on_error(res, data, st) == has_pending_eof(st)

\* The close trigger: output_to returned Ok, the outgoing pipe is empty
\* and has a pending end-of-file.
close_trigger(res, data, st) ==
    res = "Ok" /\ is_empty(data) /\ has_pending_eof(st)

\* Mutant of shutdown_how: both directions are shut down, whatever the
\* close.
shutdown_how_both(aborted) == "Both"

\* The direction of the shutdown: both for an aborted pipe, else write.
shutdown_how(aborted) == IF aborted THEN "Both" ELSE "Write"

\* TcpLink: the abort is passed on to the incoming pipe by pbuf.wr.abort().
tcp_abort_wr(st) ==
    LET a == PBufWr_abort(st)
    IN [st |-> a.st, panic |-> a.panic, called |-> TRUE]

\* UnixStreamLink: pbuf.wr.abort() is called unless the incoming pipe
\* already has end-of-file set.
unix_abort_wr(st) ==
    IF ~is_eof(st)
    THEN LET a == PBufWr_abort(st)
         IN [st |-> a.st, panic |-> a.panic, called |-> TRUE]
    ELSE [st |-> st, panic |-> FALSE, called |-> FALSE]

\* Mutant of read_failure: a reset connection is returned as an error.
read_failure_reset_fatal(k) == IF k = "WouldBlock" THEN "wait" ELSE "fatal"

\* process_in's match on the kind of a failed read: a reset or aborted
\* connection is recorded as an abort of the incoming pipe, WouldBlock is
\* waited out, any other kind is returned.
read_failure(k) ==
    CASE k \in {"ConnectionReset", "ConnectionAborted"} -> "abort"
      [] k = "WouldBlock" -> "wait"
      [] OTHER -> "fatal"

\* Mutant of read_unit: the length set by new() is passed, whatever
\* set_max_read_unit has set.
read_unit_default(L) == DefaultMaxReadUnit

\* The length process_in passes to input_from.
read_unit(L) == L.max_read_unit

AbortEntry(a) == Entry("abort", "wr", 0, 0, IF a.panic THEN "Panic" ELSE "Ok")

\* ------------------------------------------- process_out, step by step
\* The steps below are the same statements in both files; where the two
\* files differ the difference is a parameter.  L, P, S are the link, the
\* pipes and the stream as the step finds them, trip the tripwire taken
\* before output_to, log the calls made so far.

\* `Ok(prd.is_tripped(trip))`
process_out_return(L, P, S, trip, log) ==
    Ret(L, P, S, "Ok", is_tripped(Len(P.rd_data), P.rd_state, trip), "None", log)

\* Mutant of process_out_shutdown: a shutdown that would block is
\* returned as an error.
process_out_shutdown_strict(L, P, S, trip, how, sh, log) ==
    CASE sh.res = "Ok" ->
           process_out_return(
               L,
               [P EXCEPT !.rd_state = consume_eof(@),
                         !.n_consume_eof = @ + eof_consumed(P.rd_state)],
               [S EXCEPT !.shut = Append(@, how)],
               trip, log \o sh.log)
      [] OTHER -> Ret(L, P, S, "Err", FALSE, sh.res, log \o sh.log)

\* The match on the result sh of retry!(stream.shutdown(how)).
process_out_shutdown(L, P, S, trip, how, sh, log) ==
    CASE sh.res = "WouldBlock" -> process_out_return(L, P, S, trip, log \o sh.log)
      [] sh.res = "Ok" ->
           process_out_return(
               L,
               [P EXCEPT !.rd_state = consume_eof(@),
                         !.n_consume_eof = @ + eof_consumed(P.rd_state)],
               [S EXCEPT !.shut = Append(@, how)],
               trip, log \o sh.log)
      [] OTHER -> Ret(L, P, S, "Err", FALSE, sh.res, log \o sh.log)

\* The close: ab says the outgoing pipe is aborted, a is what passing the
\* abort on to the incoming pipe does (tcp_abort_wr or unix_abort_wr), sd
\* the stream's answer to shutdown.
process_out_close(L, P, S, trip, ab, a, sd, log) ==
    IF ab /\ a.panic
    THEN Ret(L, P, S, "Panic", FALSE, "None", Append(log, AbortEntry(a)))
    ELSE process_out_shutdown(
             L,
             IF ab THEN [P EXCEPT !.wr_state = a.st] ELSE P,
             S, trip, shutdown_how(ab),
             retry("shutdown", shutdown_how(ab), Len(P.rd_data), sd),
             IF ab /\ a.called THEN Append(log, AbortEntry(a)) ELSE log)

\* The pipes and the stream after output_to has left the bytes `left` in
\* the outgoing pipe.
Wrote(P, left) == [P EXCEPT !.rd_data = left]
Sent(S, P, left) ==
    [S EXCEPT !.wire = @ \o SubSeq(P.rd_data, 1, Len(P.rd_data) - Len(left))]

\* ------------------------------------------------------------- TcpLink

\* The match on the result res of output_to.
TcpLink_process_out_written(L, P, S, trip, res, sd, log) ==
    IF close_trigger(res, P.rd_data, P.rd_state)
    THEN process_out_close(L, P, S, trip, is_aborted(P.rd_state),
                           tcp_abort_wr(P.wr_state), sd, log)
    ELSE CASE res \in {"WouldBlock", "Ok"} -> process_out_return(L, P, S, trip, log)
           [] OTHER -> Ret(L, P, S, "Err", FALSE, res, log)

\* tripwire and output_to; o is what output_to did.
TcpLink_process_out_write(L, P, S, o, sd, log) ==
    TcpLink_process_out_written(L, Wrote(P, o.data), Sent(S, P, o.data),
                                tripwire(Len(P.rd_data), P.rd_state),
                                o.res, sd, log \o o.log)

\* `retry!(stream.set_nodelay(self.nodelay))?`; ndr is what retry! gave.
TcpLink_process_out_nodelay(L, P, S, ndr, ws, sd) ==
    IF ndr.res # "Ok" THEN Ret(L, P, S, "Err", FALSE, ndr.res, ndr.log)
    ELSE TcpLink_process_out_write(L, P, S, output_to(P.rd_data, ws, NoLog), sd, ndr.log)

\* Mutant of TcpLink_process_out_unpaused: pending_set_nodelay is not
\* cleared.
TcpLink_process_out_latched(L, P, S, nd, ws, sd) ==
    IF L.pending_set_nodelay
    THEN TcpLink_process_out_nodelay(
             L, P, S, retry("set_nodelay", BoolStr(L.nodelay), 0, nd), ws, sd)
    ELSE TcpLink_process_out_write(L, P, S, output_to(P.rd_data, ws, NoLog), sd, NoLog)

\* TcpLink::process_out past the pause check.  nd, ws, sd: the stream's
\* answers to set_nodelay, to the write calls and to shutdown.
TcpLink_process_out_unpaused(L, P, S, nd, ws, sd) ==
    IF L.pending_set_nodelay
    THEN TcpLink_process_out_nodelay(
             [L EXCEPT !.pending_set_nodelay = FALSE], P, S,
             retry("set_nodelay", BoolStr(L.nodelay), 0, nd), ws, sd)
    ELSE TcpLink_process_out_write(L, P, S, output_to(P.rd_data, ws, NoLog), sd, NoLog)

\* Mutant of TcpLink_process_out: pause_writes is not looked at.
TcpLink_process_out_nopause(L, P, S, nd, ws, sd) ==
    TcpLink_process_out_unpaused(L, P, S, nd, ws, sd)

\* TcpLink::process_out: nothing is done while writes are paused.
TcpLink_process_out(L, P, S, nd, ws, sd) ==
    IF L.pause_writes THEN Ret(L, P, S, "Ok", FALSE, "None", NoLog)
    ELSE TcpLink_process_out_unpaused(L, P, S, nd, ws, sd)

\* `Ok(pwr.is_tripped(trip))`
process_in_return(L, P, S, trip, log) ==
    Ret(L, P, S, "Ok", is_tripped(P.wr_len, P.wr_state, trip), "None", log)

\* `pwr.abort()` on a reset or aborted connection; a is what abort did.
process_in_abort(L, P, S, trip, a, log) ==
    IF a.panic
    THEN Ret(L, P, S, "Panic", FALSE, "None", Append(log, AbortEntry(a)))
    ELSE process_in_return(L, [P EXCEPT !.wr_state = a.st], S, trip,
                           Append(log, AbortEntry(a)))

\* The match on the result res of input_from.
process_in_read(L, P, S, trip, res, log) ==
    CASE res = "Ok" -> process_in_return(L, P, S, trip, log)
      [] read_failure(res) = "abort" ->
           process_in_abort(L, P, S, trip, PBufWr_abort(P.wr_state), log)
      [] read_failure(res) = "wait" -> process_in_return(L, P, S, trip, log)
      [] OTHER -> Ret(L, P, S, "Err", FALSE, res, log)

\* tripwire and input_from; i is what input_from did.
process_in_input(L, P, S, i) ==
    process_in_read(L, [P EXCEPT !.wr_len = i.wr_len, !.wr_state = i.wr_state], S,
                    tripwire(P.wr_len, P.wr_state), i.res, i.log)

\* Mutant of TcpLink_process_in: the end-of-file of the incoming pipe is
\* not looked at.
TcpLink_process_in_at_eof(L, P, S, rd) ==
    IF L.pause_reads
    THEN Ret(L, P, S, "Ok", FALSE, "None", NoLog)
    ELSE process_in_input(L, P, S, input_from(P.wr_len, P.wr_state, rd, read_unit(L)))

\* TcpLink::process_in.  rd: the stream's answer to the read.
TcpLink_process_in(L, P, S, rd) ==
    IF L.pause_reads \/ is_eof(P.wr_state)
    THEN Ret(L, P, S, "Ok", FALSE, "None", NoLog)
    ELSE process_in_input(L, P, S, input_from(P.wr_len, P.wr_state, rd, read_unit(L)))

\* What process returns once both calls have returned o and i.
process_both(o, i) ==
    IF i.ret # "Ok"
    THEN [i EXCEPT !.log = o.log \o i.log, !.parts = <<Returned(o), Returned(i)>>]
    ELSE [i EXCEPT !.val = o.val \/ i.val, !.log = o.log \o i.log,
                   !.parts = <<Returned(o), Returned(i)>>]

\* Mutant of TcpLink_process, second step: the error of process_out is
\* not looked at.
TcpLink_process_out_after(i, o) ==
    [o EXCEPT !.log = i.log \o o.log, !.val = o.val \/ i.val,
              !.parts = <<Returned(o), Returned(i)>>]

TcpLink_process_out_second(i, nd, ws, sd) ==
    TcpLink_process_out_after(
        i, TcpLink_process_out(i.link, i.pbuf, i.stream, nd, ws, sd))

\* Mutant of TcpLink_process: process_in is run first, and an error of
\* process_out does not keep it from running.
TcpLink_process_in_first(L, P, S, nd, ws, sd, rd) ==
    TcpLink_process_out_second(TcpLink_process_in(L, P, S, rd), nd, ws, sd)

\* `self.process_in(..)?` after process_out has returned o.
TcpLink_process_then_in(o, rd) ==
    IF o.ret # "Ok" THEN [o EXCEPT !.parts = <<Returned(o)>>]
    ELSE process_both(o, TcpLink_process_in(o.link, o.pbuf, o.stream, rd))

\* TcpLink::process: process_out, then process_in; `?` returns the first
\* error.
TcpLink_process(L, P, S, nd, ws, sd, rd) ==
    TcpLink_process_then_in(TcpLink_process_out(L, P, S, nd, ws, sd), rd)

\* ------------------------------------------------------- UnixStreamLink

\* The match on the result res of output_to.
UnixStreamLink_process_out_written(L, P, S, trip, res, sd, log) ==
    IF close_trigger(res, P.rd_data, P.rd_state)
    THEN process_out_close(L, P, S, trip, is_aborted(P.rd_state),
                           unix_abort_wr(P.wr_state), sd, log)
    ELSE CASE res \in {"WouldBlock", "Ok"} -> process_out_return(L, P, S, trip, log)
           [] OTHER -> Ret(L, P, S, "Err", FALSE, res, log)

\* tripwire and output_to; o is what output_to did.
UnixStreamLink_process_out_write(L, P, S, o, sd) ==
    UnixStreamLink_process_out_written(L, Wrote(P, o.data), Sent(S, P, o.data),
                                       tripwire(Len(P.rd_data), P.rd_state),
                                       o.res, sd, o.log)

\* UnixStreamLink::process_out past the pause check.  ws, sd: the stream's
\* answers to the write calls and to shutdown.
UnixStreamLink_process_out_unpaused(L, P, S, ws, sd) ==
    UnixStreamLink_process_out_write(L, P, S, output_to(P.rd_data, ws, NoLog), sd)

\* UnixStreamLink::process_out: nothing is done while writes are paused.
UnixStreamLink_process_out(L, P, S, ws, sd) ==
    IF L.pause_writes THEN Ret(L, P, S, "Ok", FALSE, "None", NoLog)
    ELSE UnixStreamLink_process_out_unpaused(L, P, S, ws, sd)

\* Mutant of UnixStreamLink_process_in: the end-of-file of the incoming
\* pipe is not looked at.
UnixStreamLink_process_in_at_eof(L, P, S, rd) ==
    IF L.pause_reads
    THEN Ret(L, P, S, "Ok", FALSE, "None", NoLog)
    ELSE process_in_input(L, P, S, input_from(P.wr_len, P.wr_state, rd, read_unit(L)))

\* UnixStreamLink::process_in.  rd: the stream's answer to the read.
UnixStreamLink_process_in(L, P, S, rd) ==
    IF L.pause_reads \/ is_eof(P.wr_state)
    THEN Ret(L, P, S, "Ok", FALSE, "None", NoLog)
    ELSE process_in_input(L, P, S, input_from(P.wr_len, P.wr_state, rd, read_unit(L)))

\* `self.process_in(..)?` after process_out has returned o.
UnixStreamLink_process_then_in(o, rd) ==
    IF o.ret # "Ok" THEN [o EXCEPT !.parts = <<Returned(o)>>]
    ELSE process_both(o, UnixStreamLink_process_in(o.link, o.pbuf, o.stream, rd))

\* UnixStreamLink::process: process_out, then process_in; `?` returns the
\* first error.
UnixStreamLink_process(L, P, S, ws, sd, rd) ==
    UnixStreamLink_process_then_in(UnixStreamLink_process_out(L, P, S, ws, sd), rd)

\* ------------------------------------------------------ state and actions

\* TcpLink::new
TcpLink_new ==
    [max_read_unit |-> DefaultMaxReadUnit, nodelay |-> FALSE, pause_writes |-> TRUE,
     pause_reads |-> TRUE, pending_set_nodelay |-> FALSE]

\* UnixStreamLink::new
UnixStreamLink_new ==
    [max_read_unit |-> DefaultMaxReadUnit, pause_writes |-> TRUE, pause_reads |-> TRUE]

\* What an operation that makes no call on the stream leaves in `last`.
Did(op) ==
    [op |-> op, ret |-> "Ok", val |-> FALSE, err |-> "None", log |-> NoLog,
     parts |-> <<>>]

Init ==
    /\ kind \in {"tcp", "unix"}
    /\ link = IF kind = "tcp" THEN TcpLink_new ELSE UnixStreamLink_new
    /\ pbuf = [rd_data |-> <<>>, rd_state |-> "Open", n_consume_eof |-> 0,
               wr_len |-> 0, wr_state |-> "Open"]
    /\ stream = [wire |-> <<>>, shut |-> <<>>]
    /\ queued = 0
    /\ last = Did("new")

\* No operation follows a panic, and a run is cut off at ShutCap shutdowns.
Alive == last.ret # "Panic" /\ Len(stream.shut) < ShutCap

DriveOps == {"process", "process_out", "process_in"}

Calls(log, call) == SelectSeq(log, LAMBDA e : e.call = call)

\* The drive operations of the link at hand.
process_out(nd, ws, sd) ==
    IF kind = "tcp" THEN TcpLink_process_out(link, pbuf, stream, nd, ws, sd)
                    ELSE UnixStreamLink_process_out(link, pbuf, stream, ws, sd)
process_in(rd) ==
    IF kind = "tcp" THEN TcpLink_process_in(link, pbuf, stream, rd)
                    ELSE UnixStreamLink_process_in(link, pbuf, stream, rd)
process(nd, ws, sd, rd) ==
    IF kind = "tcp" THEN TcpLink_process(link, pbuf, stream, nd, ws, sd, rd)
                    ELSE UnixStreamLink_process(link, pbuf, stream, ws, sd, rd)

\* The answers offered to an operation are exactly the answers it asks
\* for: an answer is offered for a call if and only if the call is made.
AskedNodelay(r, nd) == (nd = NoOutcome) = (Calls(r.log, "set_nodelay") = <<>>)
AskedWrites(r, ws) == r.err # "Incomplete" /\ Len(ws) = Len(Calls(r.log, "write"))
AskedShutdown(r, sd) == (sd = NoOutcome) = (Calls(r.log, "shutdown") = <<>>)
AskedRead(r, rd) == (rd = NoRead) = (Calls(r.log, "read") = <<>>)

Commit(op, r) ==
    /\ link' = r.link
    /\ pbuf' = r.pbuf
    /\ stream' = r.stream
    /\ last' = [op |-> op, ret |-> r.ret, val |-> r.val, err |-> r.err, log |-> r.log,
                parts |-> r.parts]
    /\ UNCHANGED <<kind, queued>>

NodelayIn == NodelayOutcomes \cup {NoOutcome}
WritesIn == UNION {WriteScripts(n) : n \in 0..Len(pbuf.rd_data)}
ShutdownIn == ShutdownOutcomes \cup {NoOutcome}
\* The bytes a read may find available are those left of MaxBytes.
ReadIn == ReadOutcomes(MaxBytes - queued - pbuf.wr_len) \cup {NoRead}

\* A call of process_out.
ProcessOut ==
    /\ Alive
    /\ \E nd \in NodelayIn :
         /\ AskedNodelay(process_out(nd, <<>>, NoOutcome), nd)
         /\ \E ws \in WritesIn :
              /\ AskedWrites(process_out(nd, ws, NoOutcome), ws)
              /\ \E sd \in ShutdownIn :
                   LET r == process_out(nd, ws, sd)
                   IN AskedShutdown(r, sd) /\ Commit("process_out", r)

\* A call of process_in.
ProcessIn ==
    /\ Alive
    /\ \E rd \in ReadIn :
         LET r == process_in(rd)
         IN AskedRead(r, rd) /\ Commit("process_in", r)

\* A call of process.
Process ==
    /\ Alive
    /\ \E nd \in NodelayIn :
         /\ AskedNodelay(process(nd, <<>>, NoOutcome, NoRead), nd)
         /\ \E ws \in WritesIn :
              /\ AskedWrites(process(nd, ws, NoOutcome, NoRead), ws)
              /\ \E sd \in ShutdownIn :
                   /\ AskedShutdown(process(nd, ws, sd, NoRead), sd)
                   /\ \E rd \in ReadIn :
                        LET r == process(nd, ws, sd, rd)
                        IN AskedRead(r, rd) /\ Commit("process", r)

\* set_max_read_unit (both links)
set_max_read_unit ==
    /\ Alive
    /\ \E n \in 1..MaxUnit : link' = [link EXCEPT !.max_read_unit = n]
    /\ last' = Did("owner")
    /\ UNCHANGED <<kind, pbuf, stream, queued>>

\* TcpLink::set_nodelay
set_nodelay ==
    /\ Alive
    /\ kind = "tcp"
    /\ \E nodelay \in BOOLEAN :
         link' = IF link.nodelay # nodelay
                 THEN [link EXCEPT !.nodelay = nodelay, !.pending_set_nodelay = TRUE]
                 ELSE link
    /\ last' = Did("owner")
    /\ UNCHANGED <<kind, pbuf, stream, queued>>

\* set_pause_writes (both links)
set_pause_writes ==
    /\ Alive
    /\ \E pause \in BOOLEAN : link' = [link EXCEPT !.pause_writes = pause]
    /\ last' = Did("owner")
    /\ UNCHANGED <<kind, pbuf, stream, queued>>

\* set_pause_reads (both links)
set_pause_reads ==
    /\ Alive
    /\ \E pause \in BOOLEAN : link' = [link EXCEPT !.pause_reads = pause]
    /\ last' = Did("owner")
    /\ UNCHANGED <<kind, pbuf, stream, queued>>

\* The owner queues one more byte on the outgoing pipe.  Bytes are numbered
\* in the order they are queued.
OwnerPush ==
    /\ Alive
    /\ pbuf.rd_state = "Open"
    /\ queued + pbuf.wr_len < MaxBytes
    /\ queued' = queued + 1
    /\ pbuf' = [pbuf EXCEPT !.rd_data = Append(@, queued + 1)]
    /\ last' = Did("owner")
    /\ UNCHANGED <<kind, link, stream>>

\* The owner closes the outgoing pipe: pending end-of-file.
OwnerClose ==
    /\ Alive
    /\ pbuf.rd_state = "Open"
    /\ pbuf' = [pbuf EXCEPT !.rd_state = "Closing"]
    /\ last' = Did("owner")
    /\ UNCHANGED <<kind, link, stream, queued>>

\* The owner aborts the outgoing pipe: pending end-of-file, aborted.
OwnerAbort ==
    /\ Alive
    /\ pbuf.rd_state = "Open"
    /\ pbuf' = [pbuf EXCEPT !.rd_state = "Aborting"]
    /\ last' = Did("owner")
    /\ UNCHANGED <<kind, link, stream, queued>>

Next ==
    \/ ProcessOut
    \/ ProcessIn
    \/ Process
    \/ set_max_read_unit
    \/ set_nodelay
    \/ set_pause_writes
    \/ set_pause_reads
    \/ OwnerPush
    \/ OwnerClose
    \/ OwnerAbort

Spec == Init /\ [][Next]_vars

\* ------------------------------------- process_out called until the close
\* The runs in which the owner unpauses writes, queues bytes, closes or
\* aborts the outgoing pipe, and process_out is called again and again on
\* a stream that gives no fatal error.

\* set_pause_writes(false)
Unpause == set_pause_writes /\ ~link'.pause_writes

\* A process_out call that does not return an error.
Drain == ProcessOut /\ last'.ret # "Err"

\* A process_out call in which the stream accepts bytes, and one in which
\* the shutdown succeeds.
WriteAccepted == Drain /\ Len(stream'.wire) > Len(stream.wire)
ShutdownDone == Drain /\ stream'.shut # stream.shut

LiveNext ==
    \/ Unpause
    \/ OwnerPush
    \/ OwnerClose
    \/ OwnerAbort
    \/ Drain

\* process_out is called again and again, and the stream does not answer
\* WouldBlock for ever: a write that stays possible is accepted in the
\* end, and so is the shutdown.
LiveSpec ==
    /\ Init /\ [][LiveNext]_vars
    /\ WF_vars(Drain) /\ WF_vars(WriteAccepted) /\ WF_vars(ShutdownDone)

\* ------------------------------------------------------------ the claims

Seq1(n) == [j \in 1..n |-> j]
LastOf(q) == q[Len(q)]
StreamCalls == {"set_nodelay", "write", "shutdown", "read"}
Fatal(e) == e.res \notin {"Ok", "WouldBlock", "Interrupted"}

\* C1: the bytes written to the stream are the bytes queued, in order, and
\* whenever a drive call makes a shutdown call the outgoing pipe holds no
\* unwritten byte at that moment: every byte queued has been written.
C1_FlushBeforeClose ==
    /\ stream.wire \o pbuf.rd_data = Seq1(queued)
    /\ \A i \in DOMAIN last.log :
         last.log[i].call = "shutdown" =>
            last.log[i].len = 0 /\ stream.wire = Seq1(queued)

\* A call that wrote the last bytes in two partial writes and then made the
\* shutdown call.
C1_Witness ==
    /\ last.op = "process_out"
    /\ Calls(last.log, "shutdown") # <<>>
    /\ Len(Calls(last.log, "write")) >= 2
    /\ Len(stream.wire) = MaxBytes

\* C2: for a graceful close the write half is shut down at most once, the
\* end-of-file is consumed exactly when that shutdown succeeds, after all
\* queued bytes are written; every process_out call after that makes no
\* shutdown call, changes neither pipe nor stream and reports no progress.
C2_ExactlyOnceGracefulClose ==
    /\ [](~is_aborted(pbuf.rd_state) =>
            /\ stream.shut \in {<<>>, <<"Write">>}
            /\ pbuf.n_consume_eof = Len(stream.shut)
            /\ (pbuf.rd_state = "Closed") = (stream.shut = <<"Write">>)
            /\ (stream.shut # <<>> => stream.wire = Seq1(queued)))
    /\ [][(pbuf.rd_state = "Closed" /\ last'.op = "process_out") =>
            /\ Calls(last'.log, "shutdown") = <<>>
            /\ pbuf' = pbuf
            /\ stream' = stream
            /\ last'.val = FALSE]_vars

\* An unpaused process_out call made after the graceful close of a stream
\* that carried data: it did nothing.
C2_Witness ==
    /\ pbuf.rd_state = "Closed"
    /\ stream.shut = <<"Write">>
    /\ pbuf.n_consume_eof = 1
    /\ stream.wire # <<>>
    /\ last.op = "process_out"
    /\ ~link.pause_writes
    /\ last.log = NoLog
    /\ last.ret = "Ok" /\ ~last.val

\* A call of process_out or process that reaches the close trigger: writes
\* are not paused, the end-of-file is pending (aborted or not, as asked),
\* no set_nodelay or write call failed and the outgoing pipe is empty.
CloseReached(aborted) ==
    /\ last'.op \in {"process_out", "process"}
    /\ ~link.pause_writes
    /\ pbuf.rd_state = (IF aborted THEN "Aborting" ELSE "Closing")
    /\ pbuf'.rd_data = <<>>
    /\ \A i \in DOMAIN last'.log :
         last'.log[i].call \in {"set_nodelay", "write"} =>
            last'.log[i].res \in {"Ok", "Interrupted"}

\* C3: when the close trigger is reached with the outgoing pipe aborted,
\* the call does not panic, the shutdown asked for is Both, and the
\* incoming pipe is aborted if and only if it had no end-of-file yet; if it
\* had, abort is not called on it and it is left as it was.
C3_AbortedClose ==
    [][CloseReached(TRUE) =>
         /\ last'.ret # "Panic"
         /\ Calls(last'.log, "shutdown") # <<>>
         /\ \A i \in DOMAIN last'.log :
              last'.log[i].call = "shutdown" => last'.log[i].arg = "Both"
         /\ IF is_eof(pbuf.wr_state)
            THEN /\ Calls(last'.log, "abort") = <<>>
                 /\ pbuf'.wr_state = pbuf.wr_state
                 /\ pbuf'.wr_len = pbuf.wr_len
            ELSE pbuf'.wr_state = "Aborting"]_vars

\* The last call was a process_out whose shutdown call answered WouldBlock.
BlockedShutdown ==
    /\ last.op = "process_out"
    /\ Calls(last.log, "shutdown") # <<>>
    /\ LastOf(Calls(last.log, "shutdown")).res = "WouldBlock"

\* C4: a process_out call whose shutdown answers WouldBlock returns Ok and
\* leaves the end-of-file pending; the next process_out call does not
\* panic, makes the shutdown call again with the same direction, returns
\* Ok unless the shutdown fails, and consumes the end-of-file when the
\* shutdown succeeds.
C4_ShutdownWouldBlockRetried ==
    /\ [](BlockedShutdown =>
            /\ last.ret = "Ok"
            /\ has_pending_eof(pbuf.rd_state)
            /\ stream.shut = <<>>)
    /\ [][(BlockedShutdown /\ last'.op = "process_out") =>
            LET was == Calls(last.log, "shutdown")
                now == Calls(last'.log, "shutdown")
            IN /\ last'.ret # "Panic"
               /\ now # <<>>
               /\ \A i \in DOMAIN now : now[i].arg = was[1].arg
               /\ (LastOf(now).res \in {"Ok", "WouldBlock"} => last'.ret = "Ok")
               /\ (LastOf(now).res = "Ok" =>
                     /\ pbuf'.n_consume_eof = pbuf.n_consume_eof + 1
                     /\ ~has_pending_eof(pbuf'.rd_state)
                     /\ stream'.shut = <<was[1].arg>>)]_vars

\* C5: a process_in call whose read fails with ConnectionReset or
\* ConnectionAborted aborts the incoming pipe and returns Ok(true); a read
\* failure of any other kind but WouldBlock is returned as that error and
\* the incoming pipe is not aborted.
C5_PeerAbortIsData ==
    last.op = "process_in" =>
      \A i \in DOMAIN last.log :
        LET e == last.log[i]
        IN e.call = "read" =>
             /\ (e.res \in {"ConnectionReset", "ConnectionAborted"} =>
                   last.ret = "Ok" /\ last.val /\ pbuf.wr_state = "Aborting")
             /\ (e.res \notin {"Ok", "WouldBlock", "ConnectionReset", "ConnectionAborted"} =>
                   last.ret = "Err" /\ last.err = e.res /\ pbuf.wr_state = "Open")

\* A process_in call whose read met a reset connection.
C5_Witness ==
    /\ last.op = "process_in"
    /\ Calls(last.log, "read") # <<>>
    /\ Calls(last.log, "read")[1].res = "ConnectionReset"
    /\ last.ret = "Ok" /\ last.val
    /\ pbuf.wr_state = "Aborting"

\* A call that did nothing: no call on the stream or the pipes, Ok(false),
\* link, pipes and stream as before.
Quiet ==
    /\ last'.log = NoLog
    /\ last'.ret = "Ok" /\ last'.val = FALSE
    /\ link' = link /\ pbuf' = pbuf /\ stream' = stream

\* C6: a new link has both directions paused; process_out while
\* pause_writes is set, process_in while pause_reads is set and process
\* while both are set make no call, change nothing and return Ok(false).
C6_PauseIsNoOp ==
    /\ [](last.op = "new" => link.pause_writes /\ link.pause_reads)
    /\ [][/\ (last'.op = "process_out" /\ link.pause_writes) => Quiet
          /\ (last'.op = "process_in" /\ link.pause_reads) => Quiet
          /\ (last'.op = "process" /\ link.pause_writes /\ link.pause_reads) => Quiet]_vars

\* A paused process_out call of a TcpLink with bytes queued, a close pending
\* and a set_nodelay pending.
C6_Witness ==
    /\ last.op = "process_out"
    /\ kind = "tcp"
    /\ link.pause_writes
    /\ link.pending_set_nodelay
    /\ pbuf.rd_data # <<>>
    /\ has_pending_eof(pbuf.rd_state)

FatalWrite(log) ==
    \E i \in DOMAIN log : log[i].call = "write" /\ Fatal(log[i])

\* C7: a process_out call in which a write fails with a kind other than
\* WouldBlock and Interrupted returns that error; the failed write is the
\* last thing the call does: no shutdown call, no abort call, the pending
\* end-of-file not consumed, the incoming pipe as before.
C7_FatalWriteFailure ==
    [][(last'.op = "process_out" /\ FatalWrite(last'.log)) =>
         /\ LastOf(last'.log).call = "write"
         /\ last'.ret = "Err"
         /\ last'.err = LastOf(last'.log).res
         /\ Calls(last'.log, "shutdown") = <<>>
         /\ Calls(last'.log, "abort") = <<>>
         /\ pbuf'.rd_state = pbuf.rd_state
         /\ pbuf'.n_consume_eof = pbuf.n_consume_eof
         /\ pbuf'.wr_state = pbuf.wr_state
         /\ pbuf'.wr_len = pbuf.wr_len
         /\ stream'.shut = stream.shut]_vars

\* A process_out call with an aborted close pending whose second write
\* failed, after a partial write.
C7_Witness ==
    /\ last.op = "process_out"
    /\ FatalWrite(last.log)
    /\ Len(Calls(last.log, "write")) >= 2
    /\ pbuf.rd_state = "Aborting"
    /\ last.ret = "Err" /\ last.err = "BrokenPipe"

OutFatal(log) ==
    SelectSeq(log, LAMBDA e : e.call \in {"set_nodelay", "write", "shutdown"} /\ Fatal(e))
InFatal(log) ==
    SelectSeq(log, LAMBDA e : e.call = "read" /\ Fatal(e)
                               /\ e.res \notin {"ConnectionReset", "ConnectionAborted"})

\* C8: in a process call that returns, every call process_out makes on the
\* stream comes before the read of process_in; if process_out returns an
\* error there is no read and that error is returned; else if process_in
\* returns an error that error is returned; else Ok(out or in) is, out and
\* in being what the two calls returned.
C8_ProcessOrderAndErrors ==
    (last.op = "process" /\ last.ret # "Panic") =>
       /\ \A i, j \in DOMAIN last.log :
            (last.log[i].call = "read" /\ last.log[j].call \in StreamCalls \ {"read"})
               => j < i
       /\ Len(last.parts) \in {1, 2}
       /\ IF OutFatal(last.log) # <<>>
          THEN /\ last.parts = <<[ret |-> "Err", val |-> FALSE, err |-> OutFatal(last.log)[1].res]>>
               /\ Calls(last.log, "read") = <<>>
               /\ last.ret = "Err" /\ last.err = OutFatal(last.log)[1].res
          ELSE /\ Len(last.parts) = 2
               /\ last.parts[1].ret = "Ok"
               /\ IF InFatal(last.log) # <<>>
                  THEN /\ last.parts[2].ret = "Err"
                       /\ last.ret = "Err" /\ last.err = InFatal(last.log)[1].res
                  ELSE /\ last.parts[2].ret = "Ok"
                       /\ last.ret = "Ok"
                       /\ last.val = (last.parts[1].val \/ last.parts[2].val)

\* A process call that wrote, shut the stream down and then made a read
\* that failed: the error of the read is what it returned.
C8_Witness ==
    /\ last.op = "process"
    /\ Calls(last.log, "write") # <<>>
    /\ Calls(last.log, "shutdown") # <<>>
    /\ Calls(last.log, "read") # <<>>
    /\ last.ret = "Err" /\ last.err = "TimedOut"

\* The answers of the stream in log b agree with those in log a: call by
\* call of each kind, as far as both logs go.
SameOutcomes(a, b) ==
    \A c \in StreamCalls :
       LET x == Calls(a, c)
           y == Calls(b, c)
       IN \A i \in 1..Min(Len(x), Len(y)) : x[i].res = y[i].res /\ x[i].n = y[i].n

\* C9: a drive call that follows the same drive call, with no operation of
\* the owner in between, the call before having returned Ok(false) and the
\* stream answering as it did then, returns Ok(false) and changes neither
\* the link nor the pipes.
C9_Idempotence ==
    [][(/\ last.op \in DriveOps
        /\ last'.op = last.op
        /\ last.ret = "Ok" /\ ~last.val
        /\ SameOutcomes(last.log, last'.log)) =>
         /\ last'.ret = "Ok" /\ ~last'.val
         /\ link' = link
         /\ pbuf' = pbuf]_vars

\* C10: a process_in call, alone or inside process, makes at most one read,
\* with a buffer of max_read_unit bytes as set when the call starts, and
\* adds at most that many bytes to the incoming pipe.
C10_BoundedRead ==
    [][last'.op \in {"process_in", "process"} =>
         /\ Len(Calls(last'.log, "read")) <= 1
         /\ \A i \in DOMAIN last'.log :
              last'.log[i].call = "read" =>
                 /\ last'.log[i].len = link.max_read_unit
                 /\ last'.log[i].n <= link.max_read_unit
                 /\ pbuf'.wr_len = pbuf.wr_len + last'.log[i].n
         /\ pbuf'.wr_len - pbuf.wr_len <= link.max_read_unit]_vars

\* A process_in call, after set_max_read_unit, that read max_read_unit
\* bytes while the stream had more.
C10_Witness ==
    /\ last.op = "process_in"
    /\ link.max_read_unit # DefaultMaxReadUnit
    /\ Calls(last.log, "read") # <<>>
    /\ Calls(last.log, "read")[1].arg = "more"
    /\ Calls(last.log, "read")[1].n = link.max_read_unit
    /\ pbuf.wr_len >= link.max_read_unit

\* The read call of the step's drive call (there is at most one).
ReadOf(log) == Calls(log, "read")[1]

\* C11: a process_out call that closes a pipe that is not aborted asks for
\* the shutdown of the write half only and leaves the incoming pipe as it
\* was, abort not being called on it; after the write half is shut down,
\* every process_in call with reads not paused and no end-of-file on the
\* incoming pipe still makes a read and adds the bytes read to the pipe,
\* which stays open while the peer sends bytes.
C11_HalfCloseKeepsInbound ==
    /\ [][(/\ last'.op = "process_out"
           /\ ~is_aborted(pbuf.rd_state)
           /\ Calls(last'.log, "shutdown") # <<>>) =>
            /\ \A i \in DOMAIN last'.log :
                 last'.log[i].call = "shutdown" => last'.log[i].arg = "Write"
            /\ Calls(last'.log, "abort") = <<>>
            /\ pbuf'.wr_state = pbuf.wr_state
            /\ pbuf'.wr_len = pbuf.wr_len]_vars
    /\ [][(/\ stream.shut = <<"Write">>
           /\ last'.op = "process_in"
           /\ ~link.pause_reads
           /\ ~is_eof(pbuf.wr_state)) =>
            /\ Len(Calls(last'.log, "read")) = 1
            /\ pbuf'.wr_len = pbuf.wr_len + ReadOf(last'.log).n
            /\ (ReadOf(last'.log).n > 0 =>
                  /\ pbuf'.wr_state = "Open"
                  /\ last'.ret = "Ok" /\ last'.val)]_vars

\* A process_in call that read a byte from the peer after the write half
\* was shut down by a graceful close of a stream that carried data.
C11_Witness ==
    /\ stream.shut = <<"Write">>
    /\ pbuf.rd_state = "Closed"
    /\ stream.wire # <<>>
    /\ last.op = "process_in"
    /\ Calls(last.log, "read") # <<>>
    /\ ReadOf(last.log).n = 1
    /\ pbuf.wr_state = "Open"
    /\ pbuf.wr_len = 1

\* C12: no operation of the link changes the state of the incoming pipe
\* once end-of-file is set on it: a close stays a close, an abort stays
\* an abort, neither goes back to open.
C12_IncomingFlagsMonotonic ==
    [][is_eof(pbuf.wr_state) => pbuf'.wr_state = pbuf.wr_state]_vars

\* An aborted close made by process_out while the incoming pipe had the
\* peer's graceful close recorded: the shutdown was asked for and the
\* incoming pipe still says closed, not aborted.
C12_Witness ==
    /\ last.op = "process_out"
    /\ is_aborted(pbuf.rd_state)
    /\ Calls(last.log, "shutdown") # <<>>
    /\ Calls(last.log, "shutdown")[1].arg = "Both"
    /\ pbuf.wr_state = "Closing"

\* The call log has an abort of the incoming pipe made by process_out:
\* an abort call with no read before it.
PropagatedAbort(log) ==
    \E i \in DOMAIN log :
       /\ log[i].call = "abort"
       /\ \A j \in 1..(i - 1) : log[j].call # "read"

\* C13: a process_in call made while the incoming pipe has end-of-file
\* set (a close or an abort) makes no call, changes nothing and returns
\* Ok(false); a process call that starts in that state, or whose
\* process_out has passed an abort on to the incoming pipe, makes no read
\* and adds nothing to the incoming pipe, its process_in returning
\* Ok(false) if it is called at all.
C13_NoReadPastEnd ==
    [][/\ (last'.op = "process_in" /\ is_eof(pbuf.wr_state)) => Quiet
       /\ (/\ last'.op = "process"
           /\ (is_eof(pbuf.wr_state) \/ PropagatedAbort(last'.log))) =>
            /\ Calls(last'.log, "read") = <<>>
            /\ pbuf'.wr_len = pbuf.wr_len
            /\ (Len(last'.parts) = 2 =>
                  last'.parts[2] = [ret |-> "Ok", val |-> FALSE, err |-> "None"])]_vars

\* A process call with reads not paused whose process_out passed the
\* abort on and shut the stream down, and whose process_in then returned
\* Ok(false) without a read.
C13_Witness ==
    /\ last.op = "process"
    /\ ~link.pause_reads
    /\ PropagatedAbort(last.log)
    /\ Calls(last.log, "shutdown") # <<>>
    /\ Len(last.parts) = 2
    /\ last.parts[2] = [ret |-> "Ok", val |-> FALSE, err |-> "None"]
    /\ pbuf.wr_state = "Aborting"

OutOps == {"process_out", "process"}

\* In the log every set_nodelay call has the argument arg and comes before
\* every call of another kind.
NodelayFirst(log, arg) ==
    \A i \in DOMAIN log :
       log[i].call = "set_nodelay" =>
          /\ log[i].arg = arg
          /\ \A j \in 1..(i - 1) : log[j].call = "set_nodelay"

\* What C14 says of TcpLink apart from the call that applies the option:
\* nodelay changes only in a step of the owner that makes no call on the
\* stream and leaves the change pending; a change becomes pending only
\* when nodelay changes; a process_out or process call with no change
\* pending makes no set_nodelay call and leaves none pending.
NodelayLatch ==
    /\ (link'.nodelay # link.nodelay =>
          /\ last'.op = "owner"
          /\ last'.log = NoLog
          /\ stream' = stream
          /\ link'.pending_set_nodelay)
    /\ ((link'.pending_set_nodelay /\ ~link.pending_set_nodelay) =>
          link'.nodelay # link.nodelay)
    /\ ((last'.op \in OutOps /\ ~link.pending_set_nodelay) =>
          /\ Calls(last'.log, "set_nodelay") = <<>>
          /\ ~link'.pending_set_nodelay)

\* The call applies the pending change: set_nodelay is called with the
\* value nodelay holds, before any other call, and no change is left
\* pending.
NodelayApplied ==
    /\ Calls(last'.log, "set_nodelay") # <<>>
    /\ NodelayFirst(last'.log, BoolStr(link.nodelay))
    /\ ~link'.pending_set_nodelay

Blocked(log, call) ==
    \E i \in DOMAIN log : log[i].call = call /\ log[i].res = "WouldBlock"

\* What the process_out part and the process_in part of the step's drive
\* call returned.
OutPart(l) == IF l.op = "process" THEN l.parts[1] ELSE Returned(l)
InPart(l) == IF l.op = "process" THEN l.parts[2] ELSE Returned(l)

\* C15: no drive call returns the error WouldBlock.  When a write or the
\* shutdown answers WouldBlock, process_out returns Ok with that call as
\* its last, the stream is not recorded as shut down and the end-of-file
\* is not consumed; after a blocked write no shutdown is asked for.  When
\* the read answers WouldBlock, process_in returns Ok and the incoming pipe
\* is as before.  A process call returns Ok when one of them blocks,
\* unless its read fails with an error after process_out was blocked.
C15_WouldBlockNeverError ==
    [][last'.op \in DriveOps =>
         /\ ~(last'.ret = "Err" /\ last'.err = "WouldBlock")
         /\ \A p \in DOMAIN last'.parts : last'.parts[p].err # "WouldBlock"
         /\ ((Blocked(last'.log, "write") \/ Blocked(last'.log, "shutdown")) =>
               /\ OutPart(last').ret = "Ok"
               /\ stream'.shut = stream.shut
               /\ pbuf'.n_consume_eof = pbuf.n_consume_eof
               /\ pbuf'.rd_state = pbuf.rd_state
               /\ LastOf(SelectSeq(last'.log,
                                LAMBDA e : e.call \in {"write", "shutdown"})).res
                     = "WouldBlock")
         /\ (Blocked(last'.log, "write") => Calls(last'.log, "shutdown") = <<>>)
         /\ (Blocked(last'.log, "read") =>
               /\ InPart(last').ret = "Ok"
               /\ last'.ret = "Ok"
               /\ pbuf'.wr_len = pbuf.wr_len
               /\ pbuf'.wr_state = pbuf.wr_state)
         /\ ((Blocked(last'.log, "write") \/ Blocked(last'.log, "shutdown")) =>
               (last'.ret = "Ok" \/ (last'.op = "process" /\ InFatal(last'.log) # <<>>)))]_vars

\* A process call with a close pending that wrote one byte of two, was
\* blocked on the next write and on the read, and returned Ok(true).
C15_Witness ==
    /\ last.op = "process"
    /\ Len(Calls(last.log, "write")) = 2
    /\ Blocked(last.log, "write")
    /\ Blocked(last.log, "read")
    /\ has_pending_eof(pbuf.rd_state)
    /\ last.ret = "Ok" /\ last.val

\* The answer o without the Interrupted answers before it.
Uninterrupted(o) == Outcome(0, o.res)

\* The log without its Interrupted entries.
Resolved(log) == SelectSeq(log, LAMBDA e : e.res # "Interrupted")

\* Two results of a drive call that differ at most in the Interrupted
\* entries of the log of the first.
SameButInterrupted(a, b) ==
    /\ a.link = b.link
    /\ a.pbuf = b.pbuf
    /\ a.stream = b.stream
    /\ Returned(a) = Returned(b)
    /\ a.parts = b.parts
    /\ Resolved(a.log) = b.log

\* C16: in the log of a drive call every set_nodelay or shutdown call that
\* answered Interrupted is followed at once by the same call with the same
\* arguments, and no drive call returns the error Interrupted; whatever
\* the state, process_out and process (its read, if made, answering
\* WouldBlock) called with answers to set_nodelay and shutdown that come
\* after Interrupted answers do what they do with the same answers alone.
C16_InterruptedRetried ==
    /\ last.op \in DriveOps =>
         /\ last.err # "Interrupted"
         /\ \A i \in DOMAIN last.log :
              last.log[i].res = "Interrupted" =>
                 /\ last.log[i].call \in {"set_nodelay", "shutdown"}
                 /\ i < Len(last.log)
                 /\ last.log[i + 1].call = last.log[i].call
                 /\ last.log[i + 1].arg = last.log[i].arg
                 /\ last.log[i + 1].len = last.log[i].len
    /\ \A nd \in NodelayIn, ws \in WritesIn, sd \in ShutdownIn :
         /\ SameButInterrupted(
                process_out(nd, ws, sd),
                process_out(Uninterrupted(nd), ws, Uninterrupted(sd)))
         /\ SameButInterrupted(
                process(nd, ws, sd, ReadErr("WouldBlock")),
                process(Uninterrupted(nd), ws, Uninterrupted(sd), ReadErr("WouldBlock")))

\* A process_out call of a TcpLink whose set_nodelay and shutdown calls
\* were both interrupted once and then succeeded: the end-of-file is
\* consumed.
C16_Witness ==
    /\ last.op = "process_out"
    /\ Len(Calls(last.log, "set_nodelay")) = 2
    /\ Len(Calls(last.log, "shutdown")) = 2
    /\ last.log[1].res = "Interrupted"
    /\ Calls(last.log, "shutdown")[1].res = "Interrupted"
    /\ Calls(last.log, "shutdown")[2].res = "Ok"
    /\ last.ret = "Ok"
    /\ pbuf.rd_state = "Closed"

\* The TcpLink with the settings of the UnixStreamLink L and set_nodelay
\* never called, and the UnixStreamLink with the settings of the TcpLink L.
TcpOf(L) ==
    [max_read_unit |-> L.max_read_unit, nodelay |-> FALSE,
     pause_writes |-> L.pause_writes, pause_reads |-> L.pause_reads,
     pending_set_nodelay |-> FALSE]
UnixOf(L) ==
    [max_read_unit |-> L.max_read_unit, pause_writes |-> L.pause_writes,
     pause_reads |-> L.pause_reads]

\* The TcpLink call t and the UnixStreamLink call u returned the same,
\* made the same calls and left the same pipes, stream and settings.
SameCall(t, u) ==
    /\ Returned(t) = Returned(u)
    /\ t.parts = u.parts
    /\ t.log = u.log
    /\ t.pbuf = u.pbuf
    /\ t.stream = u.stream
    /\ UnixOf(t.link) = u.link

\* C17: in every state a UnixStreamLink reaches, which are the states a
\* TcpLink reaches without set_nodelay as long as the two agree, each
\* drive call of a TcpLink with the same settings, given the same answers
\* of the stream, returns the same, makes the same calls and leaves the
\* same pipes and stream as the call of the UnixStreamLink.
C17_VariantEquivalence ==
    kind = "unix" =>
       \A ws \in WritesIn, sd \in ShutdownIn, rd \in ReadIn :
          /\ SameCall(TcpLink_process_out(TcpOf(link), pbuf, stream, NoOutcome, ws, sd),
                      UnixStreamLink_process_out(link, pbuf, stream, ws, sd))
          /\ SameCall(TcpLink_process_in(TcpOf(link), pbuf, stream, rd),
                      UnixStreamLink_process_in(link, pbuf, stream, rd))
          /\ SameCall(TcpLink_process(TcpOf(link), pbuf, stream, NoOutcome, ws, sd, rd),
                      UnixStreamLink_process(link, pbuf, stream, ws, sd, rd))

\* C18: a drive call that returns Ok(false) has changed nothing of the
\* pipes: no byte taken from the outgoing pipe, no end-of-file consumed,
\* no byte added to the incoming pipe, no close or abort set on it.
C18_ProgressSound ==
    [][(last'.op \in DriveOps /\ last'.ret = "Ok" /\ ~last'.val) =>
         pbuf' = pbuf]_vars

\* The outgoing side is closed: every queued byte is written, the stream
\* has been shut down once and the end-of-file is consumed.
OutClosed ==
    /\ pbuf.rd_data = <<>>
    /\ stream.wire = Seq1(queued)
    /\ Len(stream.shut) = 1
    /\ ~has_pending_eof(pbuf.rd_state)
    /\ pbuf.n_consume_eof = 1

\* C19: with writes not paused and an end-of-file pending, process_out
\* being called again and again on a stream that gives no fatal error and
\* does not answer WouldBlock for ever, the outgoing side is closed in the
\* end; once it is closed it stays closed and every process_out call
\* returns Ok(false).
C19_EventualClose ==
    /\ (~link.pause_writes /\ has_pending_eof(pbuf.rd_state)) ~> OutClosed
    /\ [][(OutClosed /\ last'.op = "process_out") =>
            /\ OutClosed'
            /\ last'.ret = "Ok" /\ ~last'.val]_vars

====
